---- MODULE Spec2Model ----
(***************************************************************************)
(* Model of the Spire API client (spire_client.go).                        *)
(*                                                                         *)
(* The repository holds two copies of the client.  The current one         *)
(* (package clause at line 243) pages with a "while fewer than count       *)
(* records" loop; the earlier one (package clause at line 1) computes the  *)
(* number of remaining requests up front and also carries                  *)
(* DeleteSalesOrders.  Both FetchSpireData functions are modelled; the     *)
(* earlier one carries the suffix V1.  The response handling of            *)
(* SpireRequest is the same text in both copies and is modelled once.      *)
(*                                                                         *)
(* One behaviour of the model is one call of one operation.  The backend   *)
(* is an adversary: every exchange is answered by any outcome of           *)
(* Outcomes.  A call blocks in HTTPClient.Do; a step of the model is the   *)
(* arrival of one answer together with all the code that runs up to the    *)
(* next Do or to the return.                                               *)
(***************************************************************************)
EXTENDS Integers, Sequences, FiniteSets, TLC

\* Page size.  The source fixes it to 10000 (1000 in the earlier copy); the
\* code uses it only as the limit parameter, in comparisons with count and as
\* the stride of the offsets, so it is scaled down here.
maxLimit == 2
\* Largest number of full pages a reported count spans.
MaxPages == 2
\* Longest order list handed to DeleteSalesOrders.
MaxOrders == 2

MaxCount == MaxPages * maxLimit + 1

StatusOK == 200
StatusCreated == 201
StatusNoContent == 204
StatusBadRequest == 400
StatusUnauthorized == 401

StatusCodes ==
    {StatusOK, StatusCreated, StatusNoContent, StatusBadRequest,
     StatusUnauthorized}

\* resp.Status: the status line text of a response.
StatusText(code) ==
    CASE code = StatusOK -> "200 OK"
      [] code = StatusCreated -> "201 Created"
      [] code = StatusNoContent -> "204 No Content"
      [] code = StatusBadRequest -> "400 Bad Request"
      [] OTHER -> "401 Unauthorized"

----------------------------------------------------------------------------
(* Values *)

\* A record of the backend: ordinal of the exchange that delivered it and
\* its position in that page.
MkPage(j, n) == [p \in 1..n |-> <<j, p>>]

\* Raw response bodies.  kind "json" is a well-formed {records, count}
\* document, "malformed" is text that is no JSON, "empty" is no body at all.
NoRecords == <<>>
JSONBody(recs, c) == [kind |-> "json", records |-> recs, count |-> c]
MalformedBody == [kind |-> "malformed", records |-> NoRecords, count |-> 0]
EmptyBody == [kind |-> "empty", records |-> NoRecords, count |-> 0]
NoBody == [kind |-> "none", records |-> NoRecords, count |-> 0]

\* SpireResponse{}: the zero value.
EmptyResponse == [Records |-> NoRecords, Count |-> 0]

\* Errors are chains of frames, outermost first; the nil error is the empty
\* chain.  A frame is one fmt.Errorf: its format and its arguments.
NilError == <<>>
Frame(format, status, detail, id, n) ==
    [format |-> format, status |-> status, detail |-> detail, id |-> id, n |-> n]
Errorf(format) == <<Frame(format, "", NoBody, "", 0)>>
Wrap(frame, cause) == frame \o cause

\* What HTTPClient.Do and the body reader can deliver for the j-th exchange
\* of a call: a transport failure, or a response with a status, a body and a
\* body stream that reads to its end or breaks.  A 200 is answered with every
\* page of 0..maxLimit+1 records and every count; the other statuses, whose
\* body the code never decodes, with one body of each kind.
TransportFailure ==
    [transportOK |-> FALSE, StatusCode |-> 0, body |-> NoBody, readOK |-> FALSE]

Bodies(j, counts) ==
    {JSONBody(MkPage(j, n), c) : n \in 0..(maxLimit + 1), c \in counts}
        \cup {MalformedBody, EmptyBody}

OtherBodies(j) == {JSONBody(MkPage(j, 1), 1), MalformedBody, EmptyBody}

Outcomes(j, counts) ==
    {TransportFailure}
    \cup [transportOK : {TRUE}, StatusCode : {StatusOK}, body : Bodies(j, counts),
          readOK : {TRUE}]
    \cup [transportOK : {TRUE}, StatusCode : {StatusOK}, body : {EmptyBody},
          readOK : {FALSE}]
    \cup [transportOK : {TRUE}, StatusCode : StatusCodes \ {StatusOK},
          body : OtherBodies(j), readOK : BOOLEAN]

AllCounts == 0..MaxCount
\* Later pages repeat a count too; the code never reads it.
LaterCounts == {0, MaxCount}

----------------------------------------------------------------------------
(* SpireRequest: interpretation of one exchange *)

\* The status test that sends a response down the failure path.
IsErrorStatus(code) ==
    code # StatusOK /\ code # StatusCreated /\ code # StatusNoContent

\* Variant: 201 is not recognised as an empty success.
IsEmptySuccessOnly204(code) ==
    code = StatusNoContent

\* Creation and deletion answers: returned before the body is looked at.
IsEmptySuccess(code) ==
    code = StatusCreated \/ code = StatusNoContent

\* HTTPClient.Do failed: no response at all.
TransportError ==
    Wrap(Errorf("error making request to %s: %w"), Errorf("transport"))

\* Variant: the failure path drops the body from the error.
StatusErrorNoBody(o) ==
    IF ~o.readOK
    THEN Wrap(<<Frame("request failed with status %s, but failed to read error body: %w",
                      StatusText(o.StatusCode), NoBody, "", 0)>>,
              Errorf("read"))
    ELSE <<Frame("API request failed with status %s.",
                 StatusText(o.StatusCode), NoBody, "", 0)>>

\* The failure path: io.ReadAll of the body, then the error that carries the
\* status line and the raw body, or the read failure when the body breaks.
StatusError(o) ==
    IF ~o.readOK
    THEN Wrap(<<Frame("request failed with status %s, but failed to read error body: %w",
                      StatusText(o.StatusCode), NoBody, "", 0)>>,
              Errorf("read"))
    ELSE <<Frame("API request failed with status %s. Details: %s",
                 StatusText(o.StatusCode), o.body, "", 0)>>

\* json.NewDecoder(resp.Body).Decode(&spireResponse).
Decode(o) ==
    IF o.readOK /\ o.body.kind = "json"
    THEN [resp |-> [Records |-> o.body.records, Count |-> o.body.count],
          err |-> NilError]
    ELSE [resp |-> EmptyResponse,
          err |-> Wrap(Errorf("error unmarshaling JSON: %w"), Errorf("decode"))]

\* What SpireRequest returns for the outcome o of its exchange.
SpireRequest(o) ==
    IF ~o.transportOK
    THEN [resp |-> EmptyResponse, err |-> TransportError]
    ELSE IF IsErrorStatus(o.StatusCode)
    THEN [resp |-> EmptyResponse, err |-> StatusError(o)]
    ELSE IF IsEmptySuccess(o.StatusCode)
    THEN [resp |-> EmptyResponse, err |-> NilError]
    ELSE Decode(o)

\* json.Marshal(payload) at the head of SpireRequest.
Payloads == {"nil", "order", "unmarshalable"}
MarshalPayload(payload) ==
    IF payload = "unmarshalable"
    THEN Wrap(Errorf("failed to marshal payload: %w"), Errorf("marshal"))
    ELSE NilError

----------------------------------------------------------------------------
(* ConvertFilter and the query of FetchSpireData *)

Filters == {"nil", "empty", "orderNo", "unmarshalable"}

ConvertFilter(filters) ==
    IF filters = "nil" \/ filters = "empty"
    THEN [s |-> "", err |-> NilError]
    ELSE IF filters = "unmarshalable"
    THEN [s |-> "",
          err |-> Wrap(Errorf("failed to marshal filter to JSON: %w"), Errorf("marshal"))]
    ELSE [s |-> "{\"orderNo\":\"A\"}", err |-> NilError]

\* Endpoints are collection paths without a query of their own; "%zz" is a
\* string url.Parse rejects.
Endpoints == {"/sales/orders", "%zz"}
ParseOK(endpoint) == endpoint # "%zz"

\* url.Values: each parameter holds the list of its values, empty when the
\* parameter is absent.
NoQuery == [limit |-> <<>>, filter |-> <<>>, start |-> <<>>]

\* q.Set("limit", maxLimit) and, for a non-empty filter, q.Set("filter", ...).
BuildQuery(filter) ==
    [limit |-> <<maxLimit>>,
     filter |-> IF filter # "" THEN <<filter>> ELSE <<>>,
     start |-> <<>>]

\* q.Set("start", start).
SetStart(query, st) == [query EXCEPT !.start = <<st>>]

Request(method, path, query, payload) ==
    [method |-> method, path |-> path, query |-> query, payload |-> payload]

----------------------------------------------------------------------------
(* Pieces of the two FetchSpireData functions and of DeleteSalesOrders *)

\* Variant: the single-page test written with < instead of <=.
SinglePageStrict(cnt) == cnt < maxLimit

\* if count <= maxLimit: the first page is the whole result.
SinglePage(cnt) == cnt <= maxLimit

\* Variants: the loop stops one page early; the loop runs once more when the
\* accumulator already holds count records.
LoopGuardPageShort(acc, cnt) == Len(acc) + maxLimit < cnt
LoopGuardInclusive(acc, cnt) == Len(acc) <= cnt

\* The condition of the paging loop.
LoopGuard(acc, cnt) == Len(acc) < cnt

\* Variant: the stride is off by one.
NextStartOffByOne(st) == st + maxLimit + 1

\* The post statement of the paging loop.
NextStart(st) == st + maxLimit

\* allRecords = append(allRecords, nextPageResponse.Records...).
AppendRecords(acc, recs) == acc \o recs

\* Variant: no defensive stop.
ZeroBreakNever(recs) == FALSE

\* The defensive stop: the page just appended held no record.
ZeroBreak(recs) == Len(recs) = 0

\* What the call returns when the initial request fails.
InitialFailure(cause) ==
    [records |-> NoRecords,
     err |-> Wrap(Errorf("error making initial Spire request: %w"), cause)]

\* Variant: the records gathered so far are returned along with the error.
PageFailureKeepsRecords(acc, st, cause) ==
    [records |-> acc,
     err |-> Wrap(<<Frame("error making Spire request starting at %d: %w",
                          "", NoBody, "", st)>>, cause)]

\* What the call returns when the request at offset st fails.
PageFailure(acc, st, cause) ==
    [records |-> NoRecords,
     err |-> Wrap(<<Frame("error making Spire request starting at %d: %w",
                          "", NoBody, "", st)>>, cause)]

\* Earlier copy: the number of requests still to make after the first.
RemainingRequests(cnt) == ((cnt + maxLimit - 1) \div maxLimit) - 1

\* Earlier copy: the loop condition and the offset of iteration iv.
LoopGuardV1(iv, rem) == iv < rem
StartV1(iv) == maxLimit * iv

\* Earlier copy: what the call returns when the request of iteration iv fails.
PageFailureV1(iv, cause) ==
    [records |-> NoRecords,
     err |-> Wrap(<<Frame("error making Spire request for page %d: %w",
                          "", NoBody, "", iv + 2)>>, cause)]

\* Variant: the range loop leaves out the last identifier.
HasOrderSkipsLast(list, k) == k < Len(list)

\* DeleteSalesOrders: the range loop has an element at position k.
HasOrder(list, k) == k <= Len(list)

\* DeleteSalesOrders: the error for the identifier whose DELETE failed.
DeleteFailure(orderID, cause) ==
    Wrap(<<Frame("failed to delete order %s: %w", "", NoBody, orderID, 0)>>, cause)

OrderIDs == {"SO1", "SO2"}
OrderLists == UNION {[1..n -> OrderIDs] : n \in 0..MaxOrders}

----------------------------------------------------------------------------
(* State *)

VARIABLES
    pc,                 \* where the call stands: idle, initial, page, deleting, requesting, done
    op,                 \* the operation called
    baseURL,            \* FetchSpireData: the parsed endpoint
    q,                  \* FetchSpireData: the query parameters
    count,              \* FetchSpireData: count of the first response
    allRecords,         \* FetchSpireData: the accumulator
    start,              \* FetchSpireData: the loop variable
    records,            \* earlier FetchSpireData: the accumulator
    remainingRequests,  \* earlier FetchSpireData
    i,                  \* earlier FetchSpireData: the loop variable
    orderList,          \* DeleteSalesOrders: the argument
    idx,                \* DeleteSalesOrders: position of the range loop
    wire,               \* the requests handed to HTTPClient.Do, in order
    exchanges,          \* per answered request: did SpireRequest succeed, with which records
    lastOutcome,        \* the raw outcome of the latest exchange
    lastResult,         \* what SpireRequest returned for it
    ret                 \* the value the call returned

fetchVars == <<baseURL, q, count, allRecords, start>>
v1Vars == <<records, remainingRequests, i>>
delVars == <<orderList, idx>>
vars ==
    <<pc, op, baseURL, q, count, allRecords, start, records, remainingRequests,
      i, orderList, idx, wire, exchanges, lastOutcome, lastResult, ret>>

NoReturn == [records |-> NoRecords, err |-> NilError]

Init ==
    /\ pc = "idle"
    /\ op = "none"
    /\ baseURL = ""
    /\ q = NoQuery
    /\ count = 0
    /\ allRecords = NoRecords
    /\ start = 0
    /\ records = NoRecords
    /\ remainingRequests = 0
    /\ i = 0
    /\ orderList = <<>>
    /\ idx = 0
    /\ wire = <<>>
    /\ exchanges = <<>>
    /\ lastOutcome = TransportFailure
    /\ lastResult = [resp |-> EmptyResponse, err |-> NilError]
    /\ ret = NoReturn

\* return value
Return(value) ==
    /\ ret' = value
    /\ pc' = "done"

\* c.HTTPClient.Do(req): the request goes out and the call waits at `at`.
Do(req, at) ==
    /\ wire' = Append(wire, req)
    /\ pc' = at
    /\ UNCHANGED ret

\* The answer o to the request in flight, and r, what SpireRequest made of it.
Answered(o, r) ==
    /\ lastOutcome' = o
    /\ lastResult' = r
    /\ exchanges' = Append(exchanges, [ok |-> r.err = NilError, records |-> r.resp.Records])

----------------------------------------------------------------------------
(* FetchSpireData *)

\* From the call to the first Do.
CallFetchSpireData ==
    /\ pc = "idle"
    /\ op' = "FetchSpireData"
    /\ \E endpoint \in Endpoints, filters \in Filters :
         LET f == ConvertFilter(filters) IN
         IF f.err # NilError
         THEN /\ Return([records |-> NoRecords,
                         err |-> Wrap(Errorf("could not convert filter: %w"), f.err)])
              /\ UNCHANGED <<baseURL, q, wire>>
         ELSE IF ~ParseOK(endpoint)
         THEN /\ Return([records |-> NoRecords,
                         err |-> Wrap(Errorf("invalid endpoint URL: %w"), Errorf("parse"))])
              /\ UNCHANGED <<baseURL, q, wire>>
         ELSE /\ baseURL' = endpoint
              /\ q' = BuildQuery(f.s)
              /\ Do(Request("GET", <<endpoint>>, BuildQuery(f.s), "nil"), "initial")
    /\ UNCHANGED <<count, allRecords, start, v1Vars, delVars, exchanges,
                   lastOutcome, lastResult>>

\* The head of the paging loop with accumulator acc and offset st: the next
\* request goes out, or the loop is over and the accumulator is returned.
LoopHead(acc, cnt, st) ==
    /\ allRecords' = acc
    /\ start' = st
    /\ IF LoopGuard(acc, cnt)
       THEN /\ q' = SetStart(q, st)
            /\ Do(Request("GET", <<baseURL>>, SetStart(q, st), "nil"), "page")
       ELSE /\ Return([records |-> acc, err |-> NilError])
            /\ UNCHANGED <<q, wire>>

\* The answer to the first request.
InitialResponse ==
    /\ pc = "initial"
    /\ op = "FetchSpireData"
    /\ \E o \in Outcomes(Len(wire), AllCounts) :
         LET r == SpireRequest(o) IN
         /\ Answered(o, r)
         /\ IF r.err # NilError
            THEN /\ Return(InitialFailure(r.err))
                 /\ UNCHANGED <<q, count, allRecords, start, wire>>
            ELSE /\ count' = r.resp.Count
                 /\ IF SinglePage(r.resp.Count)
                    THEN /\ Return([records |-> r.resp.Records, err |-> NilError])
                         /\ UNCHANGED <<q, allRecords, start, wire>>
                    ELSE LoopHead(AppendRecords(NoRecords, r.resp.Records),
                                  r.resp.Count, maxLimit)
    /\ UNCHANGED <<op, baseURL, v1Vars, delVars>>

\* The answer to a request of the paging loop.
PageResponse ==
    /\ pc = "page"
    /\ op = "FetchSpireData"
    /\ \E o \in Outcomes(Len(wire), LaterCounts) :
         LET r == SpireRequest(o) IN
         /\ Answered(o, r)
         /\ IF r.err # NilError
            THEN /\ Return(PageFailure(allRecords, start, r.err))
                 /\ UNCHANGED <<q, allRecords, start, wire>>
            ELSE IF ZeroBreak(r.resp.Records)
            THEN /\ allRecords' = AppendRecords(allRecords, r.resp.Records)
                 /\ Return([records |-> AppendRecords(allRecords, r.resp.Records),
                            err |-> NilError])
                 /\ UNCHANGED <<q, start, wire>>
            ELSE LoopHead(AppendRecords(allRecords, r.resp.Records), count,
                          NextStart(start))
    /\ UNCHANGED <<op, baseURL, count, v1Vars, delVars>>

----------------------------------------------------------------------------
(* FetchSpireData, earlier copy *)

CallFetchSpireDataV1 ==
    /\ pc = "idle"
    /\ op' = "FetchSpireDataV1"
    /\ \E endpoint \in Endpoints, filters \in Filters :
         LET f == ConvertFilter(filters) IN
         IF f.err # NilError
         THEN /\ Return([records |-> NoRecords,
                         err |-> Wrap(Errorf("could not convert filter: %w"), f.err)])
              /\ UNCHANGED <<baseURL, q, wire>>
         ELSE IF ~ParseOK(endpoint)
         THEN /\ Return([records |-> NoRecords,
                         err |-> Wrap(Errorf("invalid endpoint URL: %w"), Errorf("parse"))])
              /\ UNCHANGED <<baseURL, q, wire>>
         ELSE /\ baseURL' = endpoint
              /\ q' = BuildQuery(f.s)
              /\ Do(Request("GET", <<endpoint>>, BuildQuery(f.s), "nil"), "initial")
    /\ UNCHANGED <<count, allRecords, start, v1Vars, delVars, exchanges,
                   lastOutcome, lastResult>>

\* The head of the counting loop at iteration iv.
LoopHeadV1(recs, rem, iv) ==
    /\ records' = recs
    /\ i' = iv
    /\ IF LoopGuardV1(iv, rem)
       THEN /\ q' = SetStart(q, StartV1(iv))
            /\ Do(Request("GET", <<baseURL>>, SetStart(q, StartV1(iv)), "nil"), "page")
       ELSE /\ Return([records |-> recs, err |-> NilError])
            /\ UNCHANGED <<q, wire>>

InitialResponseV1 ==
    /\ pc = "initial"
    /\ op = "FetchSpireDataV1"
    /\ \E o \in Outcomes(Len(wire), AllCounts) :
         LET r == SpireRequest(o) IN
         /\ Answered(o, r)
         /\ IF r.err # NilError
            THEN /\ Return(InitialFailure(r.err))
                 /\ UNCHANGED <<q, count, v1Vars, wire>>
            ELSE /\ count' = r.resp.Count
                 /\ remainingRequests' = RemainingRequests(r.resp.Count)
                 /\ LoopHeadV1(r.resp.Records, RemainingRequests(r.resp.Count), 1)
    /\ UNCHANGED <<op, baseURL, allRecords, start, delVars>>

PageResponseV1 ==
    /\ pc = "page"
    /\ op = "FetchSpireDataV1"
    /\ \E o \in Outcomes(Len(wire), LaterCounts) :
         LET r == SpireRequest(o) IN
         /\ Answered(o, r)
         /\ IF r.err # NilError
            THEN /\ Return(PageFailureV1(i, r.err))
                 /\ UNCHANGED <<q, records, i, wire>>
            ELSE LoopHeadV1(AppendRecords(records, r.resp.Records),
                            remainingRequests, i + 1)
    /\ UNCHANGED <<op, baseURL, count, remainingRequests, allRecords, start, delVars>>

----------------------------------------------------------------------------
(* DeleteSalesOrders *)

\* The head of the range loop at position k.
DeleteLoopHead(list, k) ==
    /\ idx' = k
    /\ IF HasOrder(list, k)
       THEN Do(Request("DELETE", <<"/sales/orders/", list[k]>>, NoQuery, "nil"),
               "deleting")
       ELSE /\ Return([records |-> NoRecords, err |-> NilError])
            /\ UNCHANGED wire

CallDeleteSalesOrders ==
    /\ pc = "idle"
    /\ op' = "DeleteSalesOrders"
    /\ \E list \in OrderLists :
         /\ orderList' = list
         /\ DeleteLoopHead(list, 1)
    /\ UNCHANGED <<fetchVars, v1Vars, exchanges, lastOutcome, lastResult>>

DeleteResponse ==
    /\ pc = "deleting"
    /\ \E o \in Outcomes(Len(wire), LaterCounts) :
         LET r == SpireRequest(o) IN
         /\ Answered(o, r)
         /\ IF r.err # NilError
            THEN /\ Return([records |-> NoRecords,
                            err |-> DeleteFailure(orderList[idx], r.err)])
                 /\ UNCHANGED <<idx, wire>>
            ELSE DeleteLoopHead(orderList, idx + 1)
    /\ UNCHANGED <<op, orderList, fetchVars, v1Vars>>

----------------------------------------------------------------------------
(* SpireRequest called on its own (CreateSalesOrder and direct use) *)

Methods == {"GET", "POST", "DELETE"}

CallSpireRequest ==
    /\ pc = "idle"
    /\ op' = "SpireRequest"
    /\ \E method \in Methods, payload \in Payloads :
         IF MarshalPayload(payload) # NilError
         THEN /\ Return([records |-> NoRecords, err |-> MarshalPayload(payload)])
              /\ UNCHANGED wire
         ELSE Do(Request(method, <<"/sales/orders">>, NoQuery, payload), "requesting")
    /\ UNCHANGED <<fetchVars, v1Vars, delVars, exchanges, lastOutcome, lastResult>>

RequestResponse ==
    /\ pc = "requesting"
    /\ \E o \in Outcomes(Len(wire), AllCounts) :
         LET r == SpireRequest(o) IN
         /\ Answered(o, r)
         /\ Return([records |-> r.resp.Records, err |-> r.err])
    /\ UNCHANGED <<op, wire, fetchVars, v1Vars, delVars>>

----------------------------------------------------------------------------

Next ==
    \/ CallFetchSpireData
    \/ InitialResponse
    \/ PageResponse
    \/ CallFetchSpireDataV1
    \/ InitialResponseV1
    \/ PageResponseV1
    \/ CallDeleteSalesOrders
    \/ DeleteResponse
    \/ CallSpireRequest
    \/ RequestResponse

Spec == Init /\ [][Next]_vars

\* Every request handed to the transport is answered or times out (the
\* client's 10 second timeout), so a waiting call always takes its next step.
FairSpec == Spec /\ WF_vars(Next)

----------------------------------------------------------------------------
(* Vocabulary of the properties *)

Current == op = "FetchSpireData"
Earlier == op = "FetchSpireDataV1"
AnyFetch == Current \/ Earlier
Done == pc = "done"
Succeeded == Done /\ ret.err = NilError

\* The start parameter of the j-th request of the call; 0 when it has none.
OffsetOf(j) == IF wire[j].query.start = <<>> THEN 0 ELSE wire[j].query.start[1]

\* The pages received so far, one after the other.
RECURSIVE Concat(_, _)
Concat(log, n) ==
    IF n = 0 THEN <<>> ELSE Concat(log, n - 1) \o log[n].records

\* An exchange that failed, read off the raw outcome: no response, a status
\* outside 200/201/204, or a 200 whose body does not decode.
RawFailed(o) ==
    \/ ~o.transportOK
    \/ o.StatusCode \notin {StatusOK, StatusCreated, StatusNoContent}
    \/ o.StatusCode = StatusOK /\ (~o.readOK \/ o.body.kind # "json")

\* The records a successful raw outcome delivers.
RawRecords(o) == IF o.StatusCode = StatusOK THEN o.body.records ELSE <<>>

\* The paging call ended in the defensive stop: a later page held no record.
ZeroStop ==
    /\ Len(exchanges) >= 2
    /\ exchanges[Len(exchanges)].ok
    /\ exchanges[Len(exchanges)].records = <<>>

\* The backend of the paging property: count = k*maxLimit + r, full pages
\* below offset k*maxLimit, r records at k*maxLimit, nothing beyond.
PageLenAt(offset, k, r) ==
    IF offset < k * maxLimit THEN maxLimit
    ELSE IF offset = k * maxLimit THEN r ELSE 0

WellBehaved(k, r) ==
    /\ Len(exchanges) >= 1
    /\ Len(exchanges) = Len(wire)
    /\ count = k * maxLimit + r
    /\ \A j \in 1..Len(exchanges) :
         /\ exchanges[j].ok
         /\ Len(exchanges[j].records) = PageLenAt(OffsetOf(j), k, r)

FullFetch(k, r) ==
    /\ Len(wire) = k + 1
    /\ wire[1].query.start = <<>>
    /\ \A j \in 2..(k + 1) : wire[j].query.start = <<(j - 1) * maxLimit>>
    /\ ret.err = NilError
    /\ Len(ret.records) = count
    /\ ret.records = Concat(exchanges, Len(exchanges))

----------------------------------------------------------------------------
(* Properties *)

\* C1: against a backend reporting count = k*pageSize + r (k >= 1,
\* 0 < r < pageSize) that serves full pages below k*pageSize and r records at
\* k*pageSize, a FetchSpireData call (either copy) makes exactly k+1 requests,
\* at offsets 0, pageSize, ..., k*pageSize in that order, and returns without
\* error the count records, the pages concatenated in order of arrival.
C1_PagedFetchComplete ==
    \A k \in 1..MaxPages, r \in 1..(maxLimit - 1) :
        (AnyFetch /\ Done /\ WellBehaved(k, r)) => FullFetch(k, r)

\* C1, current copy alone: the same statement holds of the FetchSpireData
\* that loops while fewer than count records are held.
C1_CurrentCopyComplete ==
    \A k \in 1..MaxPages, r \in 1..(maxLimit - 1) :
        (Current /\ Done /\ WellBehaved(k, r)) => FullFetch(k, r)

C1_CurrentCopyWitness ==
    /\ Current /\ Done /\ WellBehaved(MaxPages, 1)
    /\ Len(ret.records) = MaxCount

C3_PageFailureDiscardsAll ==
    (Current /\ Len(exchanges) >= 2 /\ RawFailed(lastOutcome)) =>
        /\ Done
        /\ ret.err # NilError
        /\ ret.records = NoRecords
        /\ Len(wire) = Len(exchanges)
        /\ \A j \in 1..(Len(exchanges) - 1) : exchanges[j].ok

C3_Witness ==
    /\ Current /\ Done /\ Len(exchanges) >= 3
    /\ RawFailed(lastOutcome)
    /\ lastOutcome.StatusCode = StatusOK
    /\ allRecords # NoRecords
    /\ ret.records = NoRecords

\* C4: when, in a multi-page call, a request after the first succeeds with
\* zero records, the call has stopped: no further request, a nil error, and
\* exactly the records of the earlier pages, fewer than count.
C4_ZeroPageSoftStop ==
    (Current /\ Len(exchanges) >= 2 /\ ~RawFailed(lastOutcome)
        /\ RawRecords(lastOutcome) = <<>>) =>
        /\ Done
        /\ ret.err = NilError
        /\ Len(wire) = Len(exchanges)
        /\ ret.records = Concat(exchanges, Len(exchanges) - 1)
        /\ Len(ret.records) < count
        /\ count > maxLimit

C4_Witness ==
    /\ Current /\ Done /\ Len(exchanges) >= 3
    /\ ~RawFailed(lastOutcome)
    /\ lastOutcome.StatusCode = StatusOK
    /\ RawRecords(lastOutcome) = <<>>
    /\ ret.records # NoRecords

\* C5 as stated: every successful FetchSpireData call that did not end in the
\* zero-record stop returns exactly count records, count being the one the
\* first response reported.
C5_LengthEqualsCount ==
    (Current /\ Succeeded /\ Len(exchanges) >= 1 /\ ~ZeroStop) =>
        Len(ret.records) = count

\* C5 amended: a successful call whose first response reports count <= pageSize
\* returns the first page, whatever its length; one whose first response
\* reports more returns fewer than count records if it ended in the zero-record
\* stop and at least count records otherwise, and then the records before the
\* last page received were still fewer than count; so the length equals count
\* whenever no page holds more records than were still missing.
C5_LengthAgainstCount ==
    (Current /\ Succeeded /\ Len(exchanges) >= 1) =>
        IF count <= maxLimit
        THEN ret.records = exchanges[1].records
        ELSE IF ZeroStop
        THEN Len(ret.records) < count
        ELSE /\ Len(ret.records) >= count
             /\ ret.records = Concat(exchanges, Len(exchanges))
             /\ Len(exchanges) >= 2 =>
                    Len(Concat(exchanges, Len(exchanges) - 1)) < count

C5_Witness ==
    /\ Current /\ Succeeded /\ Len(exchanges) >= 3 /\ ~ZeroStop
    /\ Len(ret.records) = count

\* C6: for a response whose status is not 200, 201 or 204, SpireRequest
\* returns the empty response and an error that carries the status text and
\* the raw body; when the body cannot be read, the error carries the status
\* text and the read failure, and no body.
C6_ErrorStatusCarriesBody ==
    (Len(exchanges) >= 1 /\ lastOutcome.transportOK
        /\ lastOutcome.StatusCode \notin {StatusOK, StatusCreated, StatusNoContent}) =>
        /\ lastResult.resp = EmptyResponse
        /\ lastResult.err # NilError
        /\ lastResult.err[1].status = StatusText(lastOutcome.StatusCode)
        /\ IF lastOutcome.readOK
           THEN /\ Len(lastResult.err) = 1
                /\ lastResult.err[1].detail = lastOutcome.body
           ELSE /\ Len(lastResult.err) = 2
                /\ lastResult.err[2].format = "read"
                /\ lastResult.err[1].detail = NoBody

C6_Witness ==
    /\ op = "SpireRequest" /\ Done /\ Len(exchanges) = 1
    /\ lastOutcome.transportOK
    /\ lastOutcome.StatusCode = StatusUnauthorized
    /\ lastOutcome.readOK
    /\ lastOutcome.body = MalformedBody
    /\ ret.err = lastResult.err

\* C7: for a response with status 201 or 204, SpireRequest returns the empty
\* response (no records, count 0) and a nil error, whatever the body holds and
\* whether or not it can be read.
C7_CreatedNoContentEmpty ==
    (Len(exchanges) >= 1 /\ lastOutcome.transportOK
        /\ lastOutcome.StatusCode \in {StatusCreated, StatusNoContent}) =>
        /\ lastResult.resp.Records = <<>>
        /\ lastResult.resp.Count = 0
        /\ lastResult.err = NilError

C7_Witness ==
    /\ op = "SpireRequest" /\ Done /\ Len(exchanges) = 1
    /\ lastOutcome.transportOK
    /\ lastOutcome.StatusCode = StatusCreated
    /\ lastOutcome.body.kind = "malformed"
    /\ ~lastOutcome.readOK
    /\ ret.err = NilError

\* C8: DeleteSalesOrders sends one DELETE per identifier, in list order and
\* one at a time; a failed DELETE is the last request of the call, whose
\* error names the identifier of that request; the call returns nil only
\* after every identifier's DELETE succeeded; nothing but these DELETEs is
\* ever sent.
C8_DeleteSequentialAbort ==
    (op = "DeleteSalesOrders") =>
        /\ Len(wire) <= Len(orderList)
        /\ \A j \in 1..Len(wire) :
             /\ wire[j].method = "DELETE"
             /\ wire[j].path = <<"/sales/orders/", orderList[j]>>
        /\ Len(wire) - Len(exchanges) = (IF pc = "deleting" THEN 1 ELSE 0)
        /\ \A j \in 1..(Len(exchanges) - 1) : exchanges[j].ok
        /\ (Len(exchanges) >= 1 /\ RawFailed(lastOutcome)) =>
               /\ Done
               /\ Len(wire) = Len(exchanges)
               /\ ret.err # NilError
               /\ ret.err[1].id = orderList[Len(exchanges)]
        /\ (Done /\ ret.err = NilError) <=>
               /\ Len(exchanges) = Len(orderList)
               /\ (Len(exchanges) >= 1 => ~RawFailed(lastOutcome))

C8_Witness ==
    /\ op = "DeleteSalesOrders" /\ Done
    /\ Len(orderList) = MaxOrders
    /\ orderList[1] # orderList[MaxOrders]
    /\ Len(wire) = MaxOrders - 1
    /\ ret.err # NilError
    /\ ret.err[1].id = orderList[MaxOrders - 1]

C10_Terminates ==
    /\ [](Current => Len(wire) <= count + 1)
    /\ [][(Current /\ pc = "page") =>
            (Len(allRecords') > Len(allRecords) \/ pc' = "done")]_vars
    /\ (Current ~> Done)

C10_Witness ==
    /\ Current /\ Done
    /\ count > maxLimit
    /\ Len(wire) = count + 1

====
